---- MODULE Spec2Model ----
(***************************************************************************)
(* Model of RIVER/make_gene_indiv_variants.py: the batch pipeline that     *)
(* links rare variants near the TSS of outlier genes to (gene, individual) *)
(* pairs.  Tables are sequences of records; a DataFrame row keeps its      *)
(* index label in the field idx.  Gene and sample identifiers are          *)
(* sequences of character codes so that Python's string ordering and       *)
(* split(":") can be computed; chromosome names, allele letters and the    *)
(* emitted variant descriptors are strings built by concatenation.         *)
(***************************************************************************)
EXTENDS Integers, Sequences, FiniteSets, TLC

VARIABLES
    pc,              \* position of the script
    outliers,        \* set of genes of the outliers file (outliers["gene"])
    TSS_in,          \* rows of the BED file: chrom, start, stop, gene
    rare_in,         \* rows of the allele frequency file: chrom, pos, ref, alt
    vcf,             \* variants of the VCF: chrom, pos, ref, alt, gt (calldata/GT row)
    samples,         \* vcf["samples"]
    TSS,             \* TSS filtered for genes with outliers
    rare_var,        \* the rare_var DataFrame
    gene_dict,       \* key = index label in rare_var, value = gene
    chr_list,        \* chromosomes of TSS, in order of first appearance
    ci, wi,          \* loop positions: chromosome in chr_list, row in TSS_chr
    vcf_df,          \* the vcf_df DataFrame
    i, j,            \* loop positions of the genotype scan (j = 0: before the sample loop)
    major, minor, rare_allele,
    gene_indiv_var,  \* key = gene:indiv, value = list of descriptors
    gene_indiv_list, \* sorted keys
    ri,              \* loop position of the writer
    out              \* lines written to outfile

vars == <<pc, outliers, TSS_in, rare_in, vcf, samples, TSS, rare_var, gene_dict,
          chr_list, ci, wi, vcf_df, i, j, major, minor, rare_allele,
          gene_indiv_var, gene_indiv_list, ri, out>>

inputs == <<outliers, TSS_in, rare_in, vcf, samples>>

(***************************************************************************)
(* Bounds of the explored inputs.                                          *)
(***************************************************************************)
MaxWindows == 3
MaxFreq == 2
MaxCalls == 2

(***************************************************************************)
(* Characters and identifiers.                                             *)
(***************************************************************************)
Colon == <<58>>                      \* ":"
G1 == <<71, 49>>                     \* "G1"
G10 == <<71, 49, 48>>                \* "G10"
S1 == <<115, 49>>                    \* "s1"
S2 == <<115, 50>>                    \* "s2"

SeqsUpTo(S, n) == UNION {[1..m -> S] : m \in 0..n}

Range(s) == {s[n] : n \in DOMAIN s}

\* s < t in Python's ordering of strings (by code point, a proper prefix first)
StrLess(s, t) ==
    \E n \in 1..(Len(t)) :
        /\ \A m \in 1..(n - 1) : m <= Len(s) /\ s[m] = t[m]
        /\ n - 1 <= Len(s)
        /\ (n > Len(s) \/ s[n] < t[n])

\* str.split(":") on a sequence of character codes
RECURSIVE SplitFrom(_, _, _)
SplitFrom(s, n, cur) ==
    IF n > Len(s) THEN <<cur>>
    ELSE IF <<s[n]>> = Colon THEN <<cur>> \o SplitFrom(s, n + 1, <<>>)
    ELSE SplitFrom(s, n + 1, Append(cur, s[n]))

Split(s) == SplitFrom(s, 1, <<>>)

\* the keys ordered as pairs (gene, individual) instead of as strings
RECURSIVE SortByPair(_)
SortByPair(S) ==
    IF S = {} THEN <<>>
    ELSE LET PairLess(s, t) ==
                 \/ StrLess(Split(s)[1], Split(t)[1])
                 \/ Split(s)[1] = Split(t)[1] /\ StrLess(Split(s)[2], Split(t)[2])
             least == CHOOSE s \in S : \A t \in S \ {s} : PairLess(s, t)
         IN  <<least>> \o SortByPair(S \ {least})

\* list.sort() of a list of distinct strings, by repeated selection of the least
RECURSIVE SortStrings(_)
SortStrings(S) ==
    IF S = {} THEN <<>>
    ELSE LET least == CHOOSE s \in S : \A t \in S \ {s} : StrLess(s, t)
         IN  <<least>> \o SortStrings(S \ {least})

\* list.sort() of a list of distinct integers
RECURSIVE SortInts(_)
SortInts(S) ==
    IF S = {} THEN <<>>
    ELSE LET least == CHOOSE x \in S : \A y \in S : x <= y
         IN  <<least>> \o SortInts(S \ {least})

\* ",".join(var_list)
RECURSIVE Join(_)
Join(l) ==
    IF l = <<>> THEN ""
    ELSE IF Len(l) = 1 THEN l[1]
    ELSE l[1] \o "," \o Join(Tail(l))

\* "$" + chrom + ":$" + pos.astype(str)
ChromPos(chrom, pos) == "$" \o chrom \o ":$" \o ToString(pos)

\* "$" + chrom + ":$" + position + ":$" + major_allele + ":$" + variant_allele
Descriptor(chrom, pos, major_allele, variant_allele) ==
    "$" \o chrom \o ":$" \o ToString(pos) \o ":$" \o major_allele \o ":$" \o variant_allele

\* Series.between(left, right): both ends included
Between(x, left, right) == left <= x /\ x <= right

\* DataFrame.drop_duplicates(key): the first row of every key, in row order
RECURSIVE DropDuplicatesFrom(_, _, _)
DropDuplicatesFrom(rows, n, seen) ==
    IF n > Len(rows) THEN <<>>
    ELSE IF rows[n].chrom_pos \in seen THEN DropDuplicatesFrom(rows, n + 1, seen)
    ELSE <<rows[n]>> \o DropDuplicatesFrom(rows, n + 1, seen \cup {rows[n].chrom_pos})

\* keeps the last row of every key instead of the first
DropDuplicatesKeepLast(rows) ==
    SelectSeq(rows, LAMBDA r :
        \A q \in Range(rows) : q.chrom_pos = r.chrom_pos => q.idx <= r.idx)

DropDuplicates(rows) == DropDuplicatesFrom(rows, 1, {})

\* the rows of a table read from a file, labelled by their index
Frame(rows) ==
    [n \in DOMAIN rows |->
        [idx |-> n, chrom |-> rows[n].chrom, pos |-> rows[n].pos,
         ref |-> rows[n].ref, alt |-> rows[n].alt,
         chrom_pos |-> ChromPos(rows[n].chrom, rows[n].pos)]]

\* list(TSS.drop_duplicates("chrom")["chrom"])
RECURSIVE Chroms(_, _)
Chroms(rows, seen) ==
    IF rows = <<>> THEN <<>>
    ELSE IF Head(rows).chrom \in seen THEN Chroms(Tail(rows), seen)
    ELSE <<Head(rows).chrom>> \o Chroms(Tail(rows), seen \cup {Head(rows).chrom})

OnChrom(rows, chr) == SelectSeq(rows, LAMBDA r : r.chrom = chr)

\* Series.isin
Isin(rows, others) ==
    SelectSeq(rows, LAMBDA r : r.chrom_pos \in {o.chrom_pos : o \in Range(others)})

\* the row of a frame with a given index label (DataFrame.loc)
Loc(rows, x) == CHOOSE r \in Range(rows) : r.idx = x

\* a tie sends the alternate allele to minor
ResolveTieToAlt(ref, alt) ==
    IF ref.count >= alt.count
    THEN [major |-> ref, minor |-> alt, rare_allele |-> 1]
    ELSE [major |-> alt, minor |-> ref, rare_allele |-> 0]

\* major, minor, rare_allele from the parsed "letters:number" fields
Resolve(ref, alt) ==
    IF ref.count > alt.count
    THEN [major |-> ref, minor |-> alt, rare_allele |-> 1]
    ELSE [major |-> alt, minor |-> ref, rare_allele |-> 0]

\* rare_allele in sample_gt
Carries(allele, sample_gt) == \E n \in DOMAIN sample_gt : sample_gt[n] = allele

NoAllele == [letters |-> "", count |-> 0]

(***************************************************************************)
(* Inputs.                                                                 *)
(***************************************************************************)
Chromosomes == {"chr1", "chr2"}
Intervals == {<<0, 1>>, <<1, 2>>}
Genes == {G1, G10}

Window(c, iv, g) == [chrom |-> c, start |-> iv[1], stop |-> iv[2], gene |-> g]
WindowSet == {Window(c, iv, g) : c \in Chromosomes, iv \in Intervals, g \in Genes}

Allele(l, n) == [letters |-> l, count |-> n]
Freq(c, p, r, a) == [chrom |-> c, pos |-> p, ref |-> r, alt |-> a]
Call(c, p, r, a, g) == [chrom |-> c, pos |-> p, ref |-> r, alt |-> a, gt |-> g]

Het == <<0, 1>>
HomRef == <<0, 0>>
HomAlt == <<1, 1>>

\* inputs of the runs that vary the windows and the outlier genes
FreqFixed ==
    << Freq("chr1", 2, Allele("A", 9), Allele("T", 1)),
       Freq("chr1", 3, Allele("C", 1), Allele("G", 9)),
       Freq("chr1", 5, Allele("A", 9), Allele("C", 1)),
       Freq("chr2", 2, Allele("G", 5), Allele("T", 5)) >>
CallFixed ==
    << Call("chr1", 2, "A", "T", <<Het, Het>>),
       Call("chr1", 3, "C", "G", <<HomRef, Het>>),
       Call("chr1", 5, "A", "C", <<Het, Het>>),
       Call("chr2", 2, "G", "T", <<Het, HomAlt>>) >>

\* inputs of the runs that vary the two variant tables
TSSFixed ==
    << Window("chr1", <<1, 1>>, G1), Window("chr1", <<3, 4>>, G10) >>
FreqSet ==
    { Freq("chr1", 2, Allele("A", 9), Allele("T", 1)),
      Freq("chr1", 2, Allele("A", 5), Allele("T", 5)),
      Freq("chr1", 4, Allele("C", 1), Allele("G", 9)),
      Freq("chr1", 5, Allele("C", 9), Allele("G", 1)) }
CallSet ==
    { Call("chr1", 2, "A", "T", <<Het, HomRef>>),
      Call("chr1", 4, "C", "G", <<Het, Het>>),
      Call("chr1", 4, "C", "G", <<HomAlt, HomRef>>),
      Call("chr1", 5, "C", "G", <<Het, HomAlt>>) }

InitWindows ==
    /\ outliers \in {{}, {G1}, {G1, G10}}
    /\ TSS_in \in SeqsUpTo(WindowSet, MaxWindows)
    /\ rare_in = FreqFixed
    /\ vcf = CallFixed

InitTables ==
    /\ outliers = {G1, G10}
    /\ TSS_in = TSSFixed
    /\ rare_in \in SeqsUpTo(FreqSet, MaxFreq)
    /\ vcf \in SeqsUpTo(CallSet, MaxCalls)

Init ==
    /\ InitWindows \/ InitTables
    /\ samples = <<S1, S2>>
    /\ pc = "read"
    /\ TSS = <<>>
    /\ rare_var = <<>>
    /\ gene_dict = <<>>
    /\ chr_list = <<>>
    /\ ci = 1 /\ wi = 1
    /\ vcf_df = <<>>
    /\ i = 1 /\ j = 0
    /\ major = NoAllele /\ minor = NoAllele /\ rare_allele = 0
    /\ gene_indiv_var = <<>>
    /\ gene_indiv_list = <<>>
    /\ ri = 1
    /\ out = <<>>

(***************************************************************************)
(* The script, one action per step.                                        *)
(***************************************************************************)

\* lines 54-69: read the tables, key rare_var by chrom:pos, drop duplicates
ReadInputs ==
    /\ pc = "read"
    /\ rare_var' = DropDuplicates(Frame(rare_in))
    /\ pc' = "filter"
    /\ UNCHANGED <<inputs, TSS, gene_dict, chr_list, ci, wi, vcf_df, i, j, major,
                   minor, rare_allele, gene_indiv_var, gene_indiv_list, ri, out>>

\* TSS[TSS["gene"].isin(outliers["gene"])]
AllWindows(tss, genes) == tss

OutlierWindows(tss, genes) == SelectSeq(tss, LAMBDA w : w.gene \in genes)

\* lines 72-79: keep the windows of outlier genes, add pos0, list the chromosomes
FilterTSS ==
    /\ pc = "filter"
    /\ LET kept == OutlierWindows(TSS_in, outliers)
       IN  /\ TSS' = kept
           /\ chr_list' = Chroms(kept, {})
    /\ rare_var' = [n \in DOMAIN rare_var |->
                       [idx |-> rare_var[n].idx, chrom |-> rare_var[n].chrom,
                        pos |-> rare_var[n].pos, ref |-> rare_var[n].ref,
                        alt |-> rare_var[n].alt, chrom_pos |-> rare_var[n].chrom_pos,
                        pos0 |-> rare_var[n].pos - 1]]
    /\ gene_dict' = <<>>
    /\ ci' = 1 /\ wi' = 1
    /\ pc' = "match"
    /\ UNCHANGED <<inputs, vcf_df, i, j, major, minor, rare_allele,
                   gene_indiv_var, gene_indiv_list, ri, out>>

\* the indexes of rare_var_chr within the window of row (lines 86-89)
WindowIndex(rare_var_chr, row) ==
    LET start == row.start
        stop == row.stop + 1
    IN  {r.idx : r \in {q \in Range(rare_var_chr) : Between(q.pos0, start, stop)}}

\* lines 92-94: a variant keeps the gene it already has
Track(dict, index, gene) ==
    [x \in DOMAIN dict \cup index |-> IF x \in DOMAIN dict THEN dict[x] ELSE gene]

\* lines 80-94: one row of TSS_chr
MatchWindow ==
    /\ pc = "match"
    /\ ci <= Len(chr_list)
    /\ LET chr == chr_list[ci]
           TSS_chr == OnChrom(TSS, chr)
           rare_var_chr == OnChrom(rare_var, chr)
           row == TSS_chr[wi]
       IN  /\ gene_dict' = Track(gene_dict, WindowIndex(rare_var_chr, row), row.gene)
           /\ IF wi < Len(TSS_chr)
              THEN wi' = wi + 1 /\ ci' = ci
              ELSE wi' = 1 /\ ci' = ci + 1
    /\ UNCHANGED <<inputs, pc, TSS, rare_var, chr_list, vcf_df, i, j, major, minor,
                   rare_allele, gene_indiv_var, gene_indiv_list, ri, out>>

\* lines 96-102: keep the matched rows, in index order, with their gene
RestrictRareVar ==
    /\ pc = "match"
    /\ ci > Len(chr_list)
    /\ LET rare_var_index == SortInts(DOMAIN gene_dict)
       IN  rare_var' = [n \in DOMAIN rare_var_index |->
                LET r == Loc(rare_var, rare_var_index[n])
                IN  [idx |-> r.idx, chrom |-> r.chrom, pos |-> r.pos, ref |-> r.ref,
                     alt |-> r.alt, chrom_pos |-> r.chrom_pos, pos0 |-> r.pos0,
                     gene |-> gene_dict[rare_var_index[n]]]]
    /\ pc' = "vcf_df"
    /\ UNCHANGED <<inputs, TSS, gene_dict, chr_list, ci, wi, vcf_df, i, j, major,
                   minor, rare_allele, gene_indiv_var, gene_indiv_list, ri, out>>

\* lines 106-117: the variants of the VCF as a frame, duplicates dropped
BuildVcfDf ==
    /\ pc = "vcf_df"
    /\ vcf_df' = DropDuplicates(Frame(vcf))
    /\ pc' = "align"
    /\ UNCHANGED <<inputs, TSS, rare_var, gene_dict, chr_list, ci, wi, i, j, major,
                   minor, rare_allele, gene_indiv_var, gene_indiv_list, ri, out>>

\* line 132: DataFrame.insert of a column, row by row
InsertGene(rows, values) ==
    [n \in DOMAIN rows |->
        [idx |-> rows[n].idx, chrom |-> rows[n].chrom, pos |-> rows[n].pos,
         ref |-> rows[n].ref, alt |-> rows[n].alt, chrom_pos |-> rows[n].chrom_pos,
         gene |-> values[n]]]

\* lines 128-132: keep the keys both tables have; insert raises on unequal lengths
Align ==
    /\ pc = "align"
    /\ LET rv == Isin(rare_var, vcf_df)
           vd == Isin(vcf_df, rv)
       IN  /\ rare_var' = rv
           /\ IF Len(rv) = Len(vd)
              THEN /\ vcf_df' = InsertGene(vd, [n \in DOMAIN rv |-> rv[n].gene])
                   /\ pc' = "scan"
              ELSE /\ vcf_df' = vd
                   /\ pc' = "error"
    /\ gene_indiv_var' = <<>>
    /\ i' = 1 /\ j' = 0
    /\ UNCHANGED <<inputs, TSS, gene_dict, chr_list, ci, wi, major, minor,
                   rare_allele, gene_indiv_list, ri, out>>

\* lines 139-153: the next variant of vcf_df, its major and minor allele
ResolveAllele ==
    /\ pc = "scan"
    /\ i <= Len(vcf_df)
    /\ j = 0
    /\ LET res == Resolve(rare_var[i].ref, rare_var[i].alt)
       IN  /\ major' = res.major
           /\ minor' = res.minor
           /\ rare_allele' = res.rare_allele
    /\ IF Len(samples) = 0 THEN i' = i + 1 /\ j' = 0 ELSE i' = i /\ j' = 1
    /\ UNCHANGED <<inputs, pc, TSS, rare_var, gene_dict, chr_list, ci, wi, vcf_df,
                   gene_indiv_var, gene_indiv_list, ri, out>>

\* puts the descriptor at the front of the list
PrependVariant(dict, k, d) ==
    [x \in DOMAIN dict \cup {k} |->
        IF x = k
        THEN (IF k \in DOMAIN dict THEN <<d>> \o dict[k] ELSE <<d>>)
        ELSE dict[x]]

\* lines 161-181: append a descriptor to the list of key k
AppendVariant(dict, k, d) ==
    [x \in DOMAIN dict \cup {k} |->
        IF x = k
        THEN (IF k \in DOMAIN dict THEN Append(dict[k], d) ELSE <<d>>)
        ELSE dict[x]]

\* lines 156-181: one sample of the current variant
ScanSample ==
    /\ pc = "scan"
    /\ i <= Len(vcf_df)
    /\ j >= 1
    /\ LET index == vcf_df[i].idx
           sample_gt == vcf[index].gt[j]
           row == Loc(vcf_df, index)
           k == row.gene \o Colon \o samples[j]
       IN  gene_indiv_var' =
               IF Carries(rare_allele, sample_gt)
               THEN AppendVariant(gene_indiv_var, k,
                        Descriptor(row.chrom, row.pos, major.letters, minor.letters))
               ELSE gene_indiv_var
    /\ IF j < Len(samples) THEN i' = i /\ j' = j + 1 ELSE i' = i + 1 /\ j' = 0
    /\ UNCHANGED <<inputs, pc, TSS, rare_var, gene_dict, chr_list, ci, wi, vcf_df,
                   major, minor, rare_allele, gene_indiv_list, ri, out>>

\* "gene\tindividual\tvariants\n"
Header == <<"gene", "individual", "variants">>

\* lines 184-189: sort the keys, open the file, write the header
SortKeys ==
    /\ pc = "scan"
    /\ i > Len(vcf_df)
    /\ gene_indiv_list' = SortStrings(DOMAIN gene_indiv_var)
    /\ out' = <<Header>>
    /\ ri' = 1
    /\ pc' = "write"
    /\ UNCHANGED <<inputs, TSS, rare_var, gene_dict, chr_list, ci, wi, vcf_df, i, j,
                   major, minor, rare_allele, gene_indiv_var>>

\* lines 191-195: one row of the file; the unpacking raises unless split gives two parts
WriteRow ==
    /\ pc = "write"
    /\ ri <= Len(gene_indiv_list)
    /\ LET gene_indiv == gene_indiv_list[ri]
           parts == Split(gene_indiv)
           var_list == gene_indiv_var[gene_indiv]
       IN  IF Len(parts) = 2
           THEN /\ out' = Append(out, <<parts[1], parts[2], Join(var_list)>>)
                /\ ri' = ri + 1
                /\ pc' = pc
           ELSE /\ pc' = "error"
                /\ UNCHANGED <<out, ri>>
    /\ UNCHANGED <<inputs, TSS, rare_var, gene_dict, chr_list, ci, wi, vcf_df, i, j,
                   major, minor, rare_allele, gene_indiv_var, gene_indiv_list>>

\* lines 195-197: the file is closed
Finish ==
    /\ pc = "write"
    /\ ri > Len(gene_indiv_list)
    /\ pc' = "done"
    /\ UNCHANGED <<inputs, TSS, rare_var, gene_dict, chr_list, ci, wi, vcf_df, i, j,
                   major, minor, rare_allele, gene_indiv_var, gene_indiv_list, ri, out>>

Next ==
    \/ ReadInputs
    \/ FilterTSS
    \/ MatchWindow
    \/ RestrictRareVar
    \/ BuildVcfDf
    \/ Align
    \/ ResolveAllele
    \/ ScanSample
    \/ SortKeys
    \/ WriteRow
    \/ Finish

Spec == Init /\ [][Next]_vars

(***************************************************************************)
(* Properties.                                                             *)
(***************************************************************************)
Min(S) == CHOOSE x \in S : \A y \in S : x <= y

\* the window of the claims: start <= pos0 <= stop on the record's chromosome
Contains(w, r) == w.chrom = r.chrom /\ w.start <= r.pos - 1 /\ r.pos - 1 <= w.stop

Matching == pc = "match" /\ ci <= Len(chr_list)
MatchDone == pc \notin {"read", "filter"} /\ ~Matching
Scanning == pc = "scan" /\ i <= Len(vcf_df) /\ j >= 1

CurrentWindow == OnChrom(TSS, chr_list[ci])[wi]

\* the rows of a table that are the first of their chrom:pos
FirstRows(rows) ==
    {n \in DOMAIN rows :
        \A m \in 1..(n - 1) :
            ChromPos(rows[m].chrom, rows[m].pos) # ChromPos(rows[n].chrom, rows[n].pos)}

Letters == {"A", "C", "G", "T"}
DescriptorsOf(r) == {Descriptor(r.chrom, r.pos, a, b) : a, b \in Letters}
Emitted == UNION {Range(gene_indiv_var[k]) : k \in DOMAIN gene_indiv_var}
DataRows == {out[n] : n \in 2..Len(out)}
RowKey(row) == row[1] \o Colon \o row[2]

\* C1: every step of the Interval Matcher adds to the assigned records exactly
\* the same-chromosome records with start <= pos0 <= stop of its window; a record
\* with pos0 = stop + 1 is not matched.
C1_MatchesExactlyWithinWindow ==
    [][Matching =>
         DOMAIN gene_dict' =
             DOMAIN gene_dict \cup
                 {r.idx : r \in {q \in Range(rare_var) : Contains(CurrentWindow, q)}}]_vars

\* one step of the sample loop under the rule "the larger number is major", with
\* a tie sending alt (tieToAlt) or ref to minor: the resolved alleles, the index
\* scanned for and the descriptor appended
ScanStepRule(tieToAlt) ==
    Scanning =>
        LET f == rare_var[i]
            altMinor == \/ f.ref.count > f.alt.count
                        \/ tieToAlt /\ f.ref.count = f.alt.count
            mj == IF altMinor THEN f.ref ELSE f.alt
            mn == IF altMinor THEN f.alt ELSE f.ref
            ra == IF altMinor THEN 1 ELSE 0
            k  == vcf_df[i].gene \o Colon \o samples[j]
            d  == Descriptor(vcf_df[i].chrom, vcf_df[i].pos, mj.letters, mn.letters)
            old == IF k \in DOMAIN gene_indiv_var THEN gene_indiv_var[k] ELSE <<>>
        IN  /\ major = mj /\ minor = mn /\ rare_allele = ra
            /\ IF Carries(ra, vcf[vcf_df[i].idx].gt[j])
               THEN /\ k \in DOMAIN gene_indiv_var'
                    /\ gene_indiv_var'[k] = Append(old, d)
               ELSE gene_indiv_var' = gene_indiv_var

\* C2 (as stated): the allele with the strictly larger number is major; on a tie
\* alt is minor, the index scanned for is 1 and the descriptor ends with the alt
\* letters.
C2_TieSelectsAlt == [][ScanStepRule(TRUE)]_vars

\* C2 (amended): the allele with the strictly larger number is major; on a tie
\* ref is minor and alt is major, the index scanned for is 0 and the descriptor
\* ends with the ref letters.
C2_TieSelectsRef == [][ScanStepRule(FALSE)]_vars

\* a tie has been resolved and a sample's descriptor, ending with the ref letters,
\* has been appended
C2_Witness ==
    /\ Scanning /\ j >= 2
    /\ rare_var[i].ref.count = rare_var[i].alt.count
    /\ rare_allele = 0
    /\ \E k \in DOMAIN gene_indiv_var :
           gene_indiv_var[k][Len(gene_indiv_var[k])] =
               Descriptor(vcf_df[i].chrom, vcf_df[i].pos,
                          rare_var[i].alt.letters, rare_var[i].ref.letters)

\* C3: after the Table Aligner the two subsets have the same length and row n of
\* the frequency subset has the chrom:pos key of row n of the call subset.
C3_AlignedByKey ==
    pc = "scan" =>
        /\ Len(rare_var) = Len(vcf_df)
        /\ \A n \in DOMAIN vcf_df : rare_var[n].chrom_pos = vcf_df[n].chrom_pos

\* the windows of the filtered table that contain a frequency record
Containing(r) == {n \in DOMAIN TSS : Contains(TSS[n], r)}

FirstContainingWins ==
    MatchDone =>
        \A x \in DOMAIN gene_dict :
            Cardinality({TSS[n].gene : n \in Containing(rare_in[x])}) >= 2 =>
                gene_dict[x] = TSS[Min(Containing(rare_in[x]))].gene

\* C4: an assignment is never overwritten, and once matching is over every
\* record that windows of several genes contain has the gene of the earliest
\* window of the table that contains it.
C4_FirstContainingWindowWins ==
    [][/\ \A x \in DOMAIN gene_dict :
              x \in DOMAIN gene_dict' /\ gene_dict'[x] = gene_dict[x]
       /\ FirstContainingWins']_vars

\* the frequency record of a call-table row: the first row of the frequency
\* table with its chrom:pos, when the matcher assigned it a gene
FreqOf(n) ==
    {m \in FirstRows(rare_in) \cap DOMAIN gene_dict :
        rare_in[m].chrom = vcf[n].chrom /\ rare_in[m].pos = vcf[n].pos}

\* the variants of gene g that sample s carries, by call-table row
CarriedVariants(g, s) ==
    {n \in FirstRows(vcf) :
        \E m \in FreqOf(n) :
            /\ gene_dict[m] = g
            /\ Carries(Resolve(rare_in[m].ref, rare_in[m].alt).rare_allele,
                       vcf[n].gt[s])}

ExpectedDescriptor(n) ==
    LET m == CHOOSE m \in FreqOf(n) : TRUE
        res == Resolve(rare_in[m].ref, rare_in[m].alt)
    IN  Descriptor(vcf[n].chrom, vcf[n].pos, res.major.letters, res.minor.letters)

ExpectedList(g, s) ==
    LET order == SortInts(CarriedVariants(g, s))
    IN  [p \in DOMAIN order |-> ExpectedDescriptor(order[p])]

ExpectedRows ==
    {<<g, samples[s], Join(ExpectedList(g, s))>> :
        <<g, s>> \in {gs \in Genes \X DOMAIN samples :
                          CarriedVariants(gs[1], gs[2]) # {}}}

\* C5: the output has a row for (g, s) exactly when s carries the minor allele of
\* a variant of both tables assigned to g, and the row lists one descriptor per
\* such variant, built from the call table's chrom and pos and the letters of the
\* frequency record at the same coordinate.
C5_CarrierRows ==
    pc = "done" => DataRows = ExpectedRows /\ Len(out) - 1 = Cardinality(ExpectedRows)

\* C6: a frequency record outside every window of an outlier gene on its
\* chromosome is never assigned a gene and no descriptor of its chrom:pos is
\* emitted.
C6_OutsideNeverAssigned ==
    \A x \in DOMAIN rare_in :
        (\A w \in Range(TSS_in) : w.gene \in outliers => ~Contains(w, rare_in[x]))
            => /\ x \notin DOMAIN gene_dict
               /\ Emitted \cap DescriptorsOf(rare_in[x]) = {}

\* C7: after the header the rows are in ascending order of gene + ":" +
\* individual, each row is a key of the accumulator with its joined list, and at
\* the end every key has been written exactly once.
C7_RowsSortedOncePerKey ==
    pc \in {"write", "done"} =>
        /\ out[1] = Header
        /\ Len(out) = ri
        /\ \A n \in 2..Len(out) :
               /\ RowKey(out[n]) \in DOMAIN gene_indiv_var
               /\ out[n][3] = Join(gene_indiv_var[RowKey(out[n])])
        /\ \A n \in 2..(Len(out) - 1) : StrLess(RowKey(out[n]), RowKey(out[n + 1]))
        /\ \A k \in DOMAIN gene_indiv_var : gene_indiv_var[k] # <<>>
        /\ pc = "done" =>
               /\ {RowKey(row) : row \in DataRows} = DOMAIN gene_indiv_var
               /\ Len(out) - 1 = Cardinality(DOMAIN gene_indiv_var)

\* the rows of G10 have been written before the rows of G1
C7_Witness ==
    /\ pc = "done"
    /\ Len(out) >= 4
    /\ \E n \in 2..(Len(out) - 1) : out[n][1] = G10 /\ out[n + 1][1] = G1

NoOutlierWindow == \A w \in Range(TSS_in) : w.gene \notin outliers

\* C8: when no window's gene is an outlier gene the script raises no error, can
\* always take its next step until it is done, and writes the header only.
C8_EmptyFilterHeaderOnly ==
    NoOutlierWindow =>
        /\ pc # "error"
        /\ pc # "done" => ENABLED Next
        /\ pc = "done" => out = <<Header>>

\* the run is over with windows, frequency records and carried calls in the
\* inputs, none of the windows of an outlier gene
C8_Witness ==
    /\ pc = "done"
    /\ NoOutlierWindow
    /\ Len(TSS_in) = MaxWindows
    /\ rare_in # <<>> /\ vcf # <<>>
    /\ out = <<Header>>

\* a frame holds rows of the table under their index, first rows of their key
\* only, in the order of the table
FirstRowsInOrder(frame, rows) ==
    /\ \A n \in DOMAIN frame :
           /\ frame[n].idx \in FirstRows(rows)
           /\ frame[n].chrom = rows[frame[n].idx].chrom
           /\ frame[n].pos = rows[frame[n].idx].pos
           /\ frame[n].ref = rows[frame[n].idx].ref
           /\ frame[n].alt = rows[frame[n].idx].alt
    /\ \A n \in 1..(Len(frame) - 1) : frame[n].idx < frame[n + 1].idx

IsPrefix(s, t) == Len(s) <= Len(t) /\ \A n \in DOMAIN s : s[n] = t[n]

\* the row of the aligned call table a descriptor was made from
RowOf(d) == CHOOSE n \in DOMAIN vcf_df : d \in DescriptorsOf(vcf_df[n])

InScanOrder(l) ==
    /\ \A p \in DOMAIN l : \E n \in DOMAIN vcf_df : l[p] \in DescriptorsOf(vcf_df[n])
    /\ \A p, q \in DOMAIN l : p < q => RowOf(l[p]) < RowOf(l[q])

FinalListsInScanOrder ==
    pc = "done" => \A k \in DOMAIN gene_indiv_var : InScanOrder(gene_indiv_var[k])

\* C10: every step leaves each accumulator a prefix of its new value, no step
\* changes an accumulator once writing has begun, and the final lists are in the
\* order of the aligned call table.
C10_AppendOnlyScanOrder ==
    [][/\ \A k \in DOMAIN gene_indiv_var :
              /\ k \in DOMAIN gene_indiv_var'
              /\ IsPrefix(gene_indiv_var[k], gene_indiv_var'[k])
       /\ pc \in {"write", "done"} => gene_indiv_var' = gene_indiv_var
       /\ FinalListsInScanOrder']_vars

\* a final list of two descriptors whose call-table order is not the order of
\* their positions
C10_Witness ==
    /\ pc = "done"
    /\ \E k \in DOMAIN gene_indiv_var :
           /\ Len(gene_indiv_var[k]) >= 2
           /\ vcf_df[RowOf(gene_indiv_var[k][1])].pos
                  > vcf_df[RowOf(gene_indiv_var[k][2])].pos
====
